---- MODULE Spec2Model ----
(***************************************************************************)
(* Model of the document-processing core of server.cjs, in the two         *)
(* versions the file holds: question location (parseQuestions), the        *)
(* answered check, the insertion driver (simulateTypingAndInsert) and the  *)
(* /api/process/:documentId handler, running against a Google-Docs-like    *)
(* document.                                                               *)
(*                                                                         *)
(* Strings are sequences of one-character strings.  A document is the      *)
(* sequence of its characters in the Docs index space: the character at    *)
(* Docs index i is doc[i+1]; "#" is an opaque one-index block (the leading *)
(* section break, a table ...), every paragraph ends with "\n".            *)
(***************************************************************************)
EXTENDS Integers, Sequences, FiniteSets, TLC

\* ------------------------------------------------------------------------
\* Bounds
\* ------------------------------------------------------------------------
MaxFailures == 2      \* batchUpdate calls that may fail in one behaviour
MaxAnswerWords == 5   \* words of the long generated answer

\* ------------------------------------------------------------------------
\* Strings
\* ------------------------------------------------------------------------
NL == "\n"
SP == " "
Opaque == "#"

IsSpace(c) == c \in {SP, NL}

\* String.prototype.toLowerCase on the characters of the model's alphabet
ToLowerChar(c) ==
  CASE c = "A" -> "a"
    [] c = "B" -> "b"
    [] OTHER -> c

ToLowerCase(s) == [i \in 1..Len(s) |-> ToLowerChar(s[i])]

\* String.prototype.trim
RECURSIVE TrimStart(_)
TrimStart(s) ==
  IF s = <<>> THEN s
  ELSE IF IsSpace(Head(s)) THEN TrimStart(Tail(s)) ELSE s

RECURSIVE TrimEnd(_)
TrimEnd(s) ==
  IF s = <<>> THEN s
  ELSE IF IsSpace(s[Len(s)]) THEN TrimEnd(SubSeq(s, 1, Len(s) - 1)) ELSE s

Trim(s) == TrimEnd(TrimStart(s))

\* String.prototype.startsWith / includes
StartsWith(s, p) == Len(p) <= Len(s) /\ SubSeq(s, 1, Len(p)) = p

Includes(s, p) ==
  \E k \in 0..(Len(s) - Len(p)) : SubSeq(s, k + 1, k + Len(p)) = p

\* Array.prototype.join('') over a list of strings
RECURSIVE JoinAll(_)
JoinAll(ss) == IF ss = <<>> THEN <<>> ELSE Head(ss) \o JoinAll(Tail(ss))

\* .replace(/[.,!?;:]+/g, '')
IsPunct(c) == c \in {".", ",", "!", "?", ";", ":"}

RECURSIVE StripPunct(_)
StripPunct(s) ==
  IF s = <<>> THEN <<>>
  ELSE IF IsPunct(Head(s)) THEN StripPunct(Tail(s))
       ELSE <<Head(s)>> \o StripPunct(Tail(s))

\* .replace(/\s+/g, ' ')
RECURSIVE CollapseSpace(_)
CollapseSpace(s) ==
  IF s = <<>> THEN <<>>
  ELSE IF IsSpace(Head(s))
       THEN <<SP>> \o CollapseSpace(TrimStart(Tail(s)))
       ELSE <<Head(s)>> \o CollapseSpace(Tail(s))

normalizeText(text) == Trim(CollapseSpace(StripPunct(ToLowerCase(text))))

Max(a, b) == IF a >= b THEN a ELSE b
Min3(a, b, c) ==
  IF a <= b THEN (IF a <= c THEN a ELSE c) ELSE (IF b <= c THEN b ELSE c)

\* The substitution left out of Math.min
getLevenshteinDistanceNoSubstitution(a, b) ==
  IF Len(a) = 0 THEN Len(b)
  ELSE IF Len(b) = 0 THEN Len(a)
  ELSE LET matrix[i \in 0..Len(b), j \in 0..Len(a)] ==
             IF i = 0 THEN j
             ELSE IF j = 0 THEN i
             ELSE IF b[i] = a[j] THEN matrix[i - 1, j - 1]
             ELSE Min3(matrix[i - 1, j] + 1,
                       matrix[i, j - 1] + 1,
                       matrix[i - 1, j] + 1)
       IN matrix[Len(b), Len(a)]

\* getLevenshteinDistance: the matrix of the code, matrix[i][j] for the
\* first i characters of b and the first j characters of a
getLevenshteinDistance(a, b) ==
  IF Len(a) = 0 THEN Len(b)
  ELSE IF Len(b) = 0 THEN Len(a)
  ELSE LET matrix[i \in 0..Len(b), j \in 0..Len(a)] ==
             IF i = 0 THEN j
             ELSE IF j = 0 THEN i
             ELSE IF b[i] = a[j] THEN matrix[i - 1, j - 1]
             ELSE Min3(matrix[i - 1, j] + 1,
                       matrix[i, j - 1] + 1,
                       matrix[i - 1, j - 1] + 1)
       IN matrix[Len(b), Len(a)]

\* ------------------------------------------------------------------------
\* The document as the Docs API returns it
\* ------------------------------------------------------------------------
NoIndex == -1   \* a field that is undefined on the object

\* End (1-based position of the "\n") of the paragraph that starts at
\* position p of doc
RECURSIVE ParagraphEnd(_, _)
ParagraphEnd(doc, p) ==
  IF p >= Len(doc) \/ doc[p] = NL THEN p ELSE ParagraphEnd(doc, p + 1)

\* body.content of documents.get: one structural element per opaque block
\* and per paragraph, each with startIndex/endIndex.  indexed says whether
\* the paragraph object itself also carries startIndex/endIndex.
RECURSIVE ContentFrom(_, _, _)
ContentFrom(doc, p, indexed) ==
  IF p > Len(doc) THEN <<>>
  ELSE IF doc[p] = Opaque
       THEN <<[startIndex |-> p - 1, endIndex |-> p, isParagraph |-> FALSE,
               elements |-> <<>>, pStartIndex |-> NoIndex,
               pEndIndex |-> NoIndex]>>
            \o ContentFrom(doc, p + 1, indexed)
       ELSE LET e == ParagraphEnd(doc, p)
            IN <<[startIndex |-> p - 1, endIndex |-> e, isParagraph |-> TRUE,
                  elements |-> <<SubSeq(doc, p, e)>>,
                  pStartIndex |-> IF indexed THEN p - 1 ELSE NoIndex,
                  pEndIndex |-> IF indexed THEN e ELSE NoIndex]>>
               \o ContentFrom(doc, e + 1, indexed)

fetchDocument(doc, indexed) == ContentFrom(doc, 1, indexed)

\* paragraph.elements.filter(textRun).map(content).join('').trim()
ParaText(element) == Trim(JoinAll(element.elements))

\* ------------------------------------------------------------------------
\* isQuestionAnswered(content, questionEndIndex)
\* ------------------------------------------------------------------------
\* content.find(element => element.endIndex === questionEndIndex), as the
\* position of the element in content (0 when there is none)
FindByEndIndex(content, questionEndIndex) ==
  LET hits == {k \in 1..Len(content) : content[k].endIndex = questionEndIndex}
  IN IF hits = {} THEN 0 ELSE CHOOSE k \in hits : \A m \in hits : k <= m

AnswerMarker == <<"A", "n", "s", "w", "e", "r", ":">>

\* The element itself inspected in place of the next one
isQuestionAnsweredSelf(content, questionEndIndex) ==
  LET k == FindByEndIndex(content, questionEndIndex)
  IN IF k = 0 THEN FALSE
     ELSE IF content[k].isParagraph
          THEN StartsWith(ParaText(content[k]), AnswerMarker)
          ELSE FALSE

isQuestionAnswered(content, questionEndIndex) ==
  LET k == FindByEndIndex(content, questionEndIndex)
  IN IF k = 0 THEN FALSE
     ELSE IF content[k].isParagraph /\ k + 1 <= Len(content)
             /\ content[k + 1].isParagraph
          THEN StartsWith(ParaText(content[k + 1]), AnswerMarker)
          ELSE FALSE

\* ------------------------------------------------------------------------
\* detectQuestions: JSON.parse of the detector's reply, trim, Set
\* ------------------------------------------------------------------------
RECURSIVE Dedup(_, _)
Dedup(qs, seen) ==
  IF qs = <<>> THEN <<>>
  ELSE IF Head(qs) \in seen THEN Dedup(Tail(qs), seen)
       ELSE <<Head(qs)>> \o Dedup(Tail(qs), seen \cup {Head(qs)})

\* The content used as it came, whether or not it parsed
detectQuestionsRaw(reply) ==
  Dedup([i \in 1..Len(reply.list) |-> Trim(reply.list[i])], {})

\* reply.ok = FALSE: the call threw or the content is not a JSON array
detectQuestions(reply) ==
  IF ~reply.ok THEN <<>>
  ELSE Dedup([i \in 1..Len(reply.list) |-> Trim(reply.list[i])], {})

\* ------------------------------------------------------------------------
\* parseQuestions
\* ------------------------------------------------------------------------
\* extractParagraphText over content.  para is auxiliary: the position in
\* content of the paragraph the line was taken from.
RECURSIVE LinesFrom(_, _)
LinesFrom(content, k) ==
  IF k > Len(content) THEN <<>>
  ELSE LET el == content[k]
           paraText == ParaText(el)
           startIndex == IF el.pStartIndex = NoIndex THEN 0 ELSE el.pStartIndex
           endIndex == IF el.pEndIndex = NoIndex
                       THEN startIndex + Len(paraText) + 1
                       ELSE el.pEndIndex
       IN (IF el.isParagraph /\ Len(paraText) > 0
           THEN <<[text |-> paraText, endIndex |-> endIndex, para |-> k]>>
           ELSE <<>>)
          \o LinesFrom(content, k + 1)

ExtractLines(content) == LinesFrom(content, 1)

\* lines.find(line => normalizeText(line.text).includes(normalizedQuestion)),
\* as a position in lines (0 when there is none)
PrimaryMatch(lines, normalizedQuestion) ==
  LET hits == {k \in 1..Len(lines) :
                 Includes(normalizeText(lines[k].text), normalizedQuestion)}
  IN IF hits = {} THEN 0 ELSE CHOOSE k \in hits : \A m \in hits : k <= m

\* similarity = 1 - distance / maxLength, compared through cross
\* multiplication: SimGreater(d1, m1, d2, m2) is sim1 > sim2.  maxLength = 0
\* gives NaN, which compares false with everything.
SimGreater(d1, m1, d2, m2) ==
  m1 > 0 /\ m2 > 0 /\ (m1 - d1) * m2 > (m2 - d2) * m1

\* The threshold taken as 0.5
SimAtLeastHalf(d, m) == m > 0 /\ 2 * (m - d) >= m

\* similarity >= similarityThreshold (0.8)
SimAtLeastThreshold(d, m) == m > 0 /\ 5 * (m - d) >= 4 * m

\* the lines.forEach of the fallback: best = <<position, distance, maxLength>>
\* of the best paragraph so far; position 0 is highestSimilarity = 0
RECURSIVE BestFrom(_, _, _, _)
BestFrom(lines, normalizedQuestion, k, best) ==
  IF k > Len(lines) THEN best
  ELSE LET normalizedLine == normalizeText(lines[k].text)
           distance == getLevenshteinDistance(normalizedQuestion, normalizedLine)
           maxLength == Max(Len(normalizedQuestion), Len(normalizedLine))
           better == IF best[1] = 0
                     THEN maxLength > 0 /\ maxLength - distance > 0
                     ELSE SimGreater(distance, maxLength, best[2], best[3])
       IN BestFrom(lines, normalizedQuestion, k + 1,
                   IF better THEN <<k, distance, maxLength>> ELSE best)

FallbackMatch(lines, normalizedQuestion) ==
  LET best == BestFrom(lines, normalizedQuestion, 1, <<0, 0, 0>>)
  IN IF best[1] # 0 /\ SimAtLeastThreshold(best[2], best[3])
     THEN best[1] ELSE 0

\* One iteration of the for loop over detectedQuestions: the question
\* entries it pushes (none or one).  via is auxiliary.
LocateOne(content, lines, question) ==
  LET normalizedQuestion == normalizeText(question)
      m == PrimaryMatch(lines, normalizedQuestion)
  IN IF m # 0
     THEN IF isQuestionAnswered(content, lines[m].endIndex) THEN <<>>
          ELSE <<[text |-> question, endIndex |-> lines[m].endIndex,
                  para |-> lines[m].para, via |-> "primary"]>>
     ELSE LET f == FallbackMatch(lines, normalizedQuestion)
          IN IF f = 0 THEN <<>>
             ELSE IF isQuestionAnswered(content, lines[f].endIndex) THEN <<>>
             ELSE <<[text |-> question, endIndex |-> lines[f].endIndex,
                     para |-> lines[f].para, via |-> "similarity"]>>

RECURSIVE LocateAll(_, _, _)
LocateAll(content, lines, detected) ==
  IF detected = <<>> THEN <<>>
  ELSE LocateOne(content, lines, Head(detected))
       \o LocateAll(content, lines, Tail(detected))

parseQuestions(content, reply) ==
  LocateAll(content, ExtractLines(content), detectQuestions(reply))

\* ------------------------------------------------------------------------
\* parseQuestions of the earlier version: regex search in the flattened text
\* ------------------------------------------------------------------------
\* fullText: the run texts of every paragraph followed by one "\n"
RECURSIVE FullTextFrom(_, _)
FullTextFrom(content, k) ==
  IF k > Len(content) THEN <<>>
  ELSE (IF content[k].isParagraph
        THEN JoinAll(content[k].elements) \o <<NL>> ELSE <<>>)
       \o FullTextFrom(content, k + 1)

FullText(content) == FullTextFrom(content, 1)

\* question.replace(/[.,!?;:]+$/, '')
RECURSIVE TrimTrailingPunct(_)
TrimTrailingPunct(s) ==
  IF s = <<>> THEN s
  ELSE IF IsPunct(s[Len(s)]) THEN TrimTrailingPunct(SubSeq(s, 1, Len(s) - 1))
       ELSE s

\* The [.,!?;:]* of the regex: end of the punctuation run that starts after
\* the first e characters of text
RECURSIVE PunctRunEnd(_, _)
PunctRunEnd(text, e) ==
  IF e < Len(text) /\ IsPunct(text[e + 1]) THEN PunctRunEnd(text, e + 1) ELSE e

\* regex.exec(fullText) with lastIndex = from: <<index, end>> of the match,
\* or <<-1, -1>> for null
RegexExec(text, pattern, from) ==
  LET starts == {k \in from..(Len(text) - Len(pattern)) :
                   ToLowerCase(SubSeq(text, k + 1, k + Len(pattern)))
                     = ToLowerCase(pattern)}
  IN IF starts = {} THEN <<-1, -1>>
     ELSE LET k == CHOOSE k \in starts : \A m \in starts : k <= m
          IN <<k, PunctRunEnd(text, k + Len(pattern))>>

\* mapCharacterIndexToEndIndex, as the position in content of the element
\* whose endIndex is returned (0 for null)
\* The paragraph break not counted
RECURSIVE MapFromNoBreak(_, _, _, _)
MapFromNoBreak(content, characterIndex, k, currentChar) ==
  IF k > Len(content) THEN 0
  ELSE IF ~content[k].isParagraph
       THEN MapFromNoBreak(content, characterIndex, k + 1, currentChar)
       ELSE LET nextChar == currentChar + Len(JoinAll(content[k].elements))
            IN IF JoinAll(content[k].elements) # <<>> /\ characterIndex <= nextChar
               THEN k
               ELSE MapFromNoBreak(content, characterIndex, k + 1, nextChar)

RECURSIVE MapFrom(_, _, _, _)
MapFrom(content, characterIndex, k, currentChar) ==
  IF k > Len(content) THEN 0
  ELSE IF ~content[k].isParagraph
       THEN MapFrom(content, characterIndex, k + 1, currentChar)
       ELSE LET nextChar == currentChar + Len(JoinAll(content[k].elements))
            IN IF JoinAll(content[k].elements) # <<>> /\ characterIndex <= nextChar
               THEN k
               ELSE MapFrom(content, characterIndex, k + 1, nextChar + 1)

mapCharacterIndexToEndIndex(content, characterIndex) ==
  LET k == MapFrom(content, characterIndex, 1, 0)
  IN IF k = 0 THEN NoIndex ELSE content[k].endIndex

\* The while loop over regex.exec for one detected question, from lastIndex.
\* An empty match leaves lastIndex where it is: the loop does not end then
\* (see LoopsForever), and this operator is used only when it ends.
RECURSIVE ExecLoop(_, _, _, _)
ExecLoop(content, fullText, trimmedQuestion, lastIndex) ==
  LET match == RegexExec(fullText, trimmedQuestion, lastIndex)
  IN IF match[1] = -1 THEN <<>>
     ELSE LET characterIndex == match[2]
              insertIndex == mapCharacterIndexToEndIndex(content, characterIndex)
          IN (IF insertIndex # NoIndex
              THEN <<[text |-> trimmedQuestion, endIndex |-> insertIndex,
                      para |-> MapFrom(content, characterIndex, 1, 0),
                      via |-> "regex"]>>
              ELSE <<>>)
             \o ExecLoop(content, fullText, trimmedQuestion, match[2])

\* Some detected question is only punctuation: its regex matches the empty
\* string and regex.exec returns the same match again and again
LoopsForever(detected) ==
  \E k \in 1..Len(detected) : TrimTrailingPunct(detected[k]) = <<>>

RECURSIVE LocateAllEarlier(_, _, _)
LocateAllEarlier(content, fullText, detected) ==
  IF detected = <<>> THEN <<>>
  ELSE ExecLoop(content, fullText, TrimTrailingPunct(Head(detected)), 0)
       \o LocateAllEarlier(content, fullText, Tail(detected))

parseQuestionsEarlier(content, reply) ==
  LocateAllEarlier(content, FullText(content), detectQuestions(reply))

\* questions.sort((a, b) => a.endIndex - b.endIndex): stable
RECURSIVE InsertSorted(_, _)
InsertSorted(sorted, q) ==
  IF sorted = <<>> THEN <<q>>
  ELSE IF Head(sorted).endIndex <= q.endIndex
       THEN <<Head(sorted)>> \o InsertSorted(Tail(sorted), q)
       ELSE <<q>> \o sorted

\* The questions left in the order parseQuestions returned them
SortNone(qs) == qs

RECURSIVE SortByEndIndex(_)
SortByEndIndex(qs) ==
  IF qs = <<>> THEN <<>>
  ELSE InsertSorted(SortByEndIndex(SubSeq(qs, 1, Len(qs) - 1)), qs[Len(qs)])


\* ------------------------------------------------------------------------
\* isDocumentOwnerApproved
\* ------------------------------------------------------------------------
Undefined == "undefined"   \* an owner record without emailAddress
NullOwner == "null"        \* a null entry in owners

approvedEmails ==
  <<"zarfix.42@gmail.com", "dennis24.f@gmail.com", "26freymand@mbusdapps.org">>

\* String.prototype.toLowerCase on the addresses of the model
EmailToLowerCase(e) ==
  CASE e = "ZARFIX.42@GMAIL.COM" -> "zarfix.42@gmail.com"
    [] e = "Stranger@Gmail.com" -> "stranger@gmail.com"
    [] OTHER -> e

\* owners.some(owner => approved.includes(owner.emailAddress.toLowerCase())):
\* "yes", "no", or "throw" when an owner without emailAddress is reached
RECURSIVE SomeOwnerApproved(_)
SomeOwnerApproved(owners) ==
  IF owners = <<>> THEN "no"
  ELSE IF Head(owners) \in {Undefined, NullOwner} THEN "throw"
  ELSE IF \E k \in 1..Len(approvedEmails) :
            EmailToLowerCase(approvedEmails[k]) = EmailToLowerCase(Head(owners))
       THEN "yes"
       ELSE SomeOwnerApproved(Tail(owners))

\* The body of the try block: "throw" when drive.files.get rejects
\* (lookup.ok = FALSE), when the logging owners.map reads emailAddress of a
\* null entry, or when owners.some throws
OwnersCheck(lookup) ==
  IF ~lookup.ok THEN "throw"
  ELSE IF \E k \in 1..Len(lookup.owners) : lookup.owners[k] = NullOwner
       THEN "throw"
       ELSE SomeOwnerApproved(lookup.owners)

\* The catch block returning true
isDocumentOwnerApprovedFailOpen(lookup) ==
  OwnersCheck(lookup) \in {"yes", "throw"}

\* catch (error) { return false }
isDocumentOwnerApproved(lookup) ==
  OwnersCheck(lookup) = "yes"

\* ------------------------------------------------------------------------
\* generateAnswer and the chunks of simulateTypingAndInsert
\* ------------------------------------------------------------------------
Null == <<>>   \* null and the empty string: both falsy in `if (!answer)`

\* response content trimmed, `|| null`; reply.ok = FALSE: the call threw
generateAnswer(reply) == IF ~reply.ok THEN Null ELSE Trim(reply.content)

\* `\nAnswer: ${answer}\n`
FullAnswer(answer) == <<NL>> \o AnswerMarker \o <<SP>> \o answer \o <<NL>>

\* String.prototype.split(' ')
RECURSIVE SplitFrom(_, _)
SplitFrom(s, word) ==
  IF s = <<>> THEN <<word>>
  ELSE IF Head(s) = SP THEN <<word>> \o SplitFrom(Tail(s), <<>>)
       ELSE SplitFrom(Tail(s), Append(word, Head(s)))

Split(s) == SplitFrom(s, <<>>)

\* Array.prototype.join(' ')
RECURSIVE JoinSpace(_)
JoinSpace(ws) ==
  IF ws = <<>> THEN <<>>
  ELSE IF Len(ws) = 1 THEN Head(ws)
       ELSE Head(ws) \o <<SP>> \o JoinSpace(Tail(ws))

chunkSize == 5

\* words.slice(i, i + chunkSize).join(' ') + ' '
ChunkAt(words, i) ==
  JoinSpace(SubSeq(words, i + 1, IF i + chunkSize <= Len(words)
                                 THEN i + chunkSize ELSE Len(words)))
  \o <<SP>>

\* setTimeout(res, delay * chunkSize): the pause after a chunk, in units of
\* the per-word delay
PauseWords(words, i) == chunkSize

\* The recovery request without the newline
RecoveryTextBare(chunk) == chunk

\* text: '\n' + chunk of the recovery request
RecoveryText(chunk) == <<NL>> \o chunk

\* The trailing space of the chunk not counted
AdvanceWithoutSpace(n, chunk) == n + Len(chunk) - 1

\* totalInserted += chunk.length / insertIndex += chunk.length
Advance(n, chunk) == n + Len(chunk)

\* The recovery counted without its newline
AdvanceRecoveredNoNewline(n, chunk) == n + Len(chunk)

\* totalInserted += chunk.length + 1 / insertIndex += chunk.length + 1
AdvanceRecovered(n, chunk) == n + Len(chunk) + 1

\* ------------------------------------------------------------------------
\* documents.batchUpdate(insertText) on the document
\* ------------------------------------------------------------------------
\* The index must lie inside a paragraph of the body
CanInsert(doc, index) ==
  index >= 1 /\ index <= Len(doc) - 1 /\ doc[index + 1] # Opaque

InsertText(doc, index, text) ==
  SubSeq(doc, 1, index) \o text \o SubSeq(doc, index + 1, Len(doc))

\* ------------------------------------------------------------------------
\* /api/process/:documentId
\* ------------------------------------------------------------------------
\* The index without the cumulative correction
AdjustedIndexNoOffset(endIndex, cumulativeOffset) == endIndex - 1

\* let insertIndex = question.endIndex - 1 + cumulativeOffset
AdjustedIndex(endIndex, cumulativeOffset) == endIndex - 1 + cumulativeOffset

\* The safeguard left out
SkipsIndexNever(insertIndex) == FALSE

\* if (insertIndex < 0) { ...; continue }
SkipsIndex(insertIndex) == insertIndex < 0

\* The offset left as it was
AddInsertedStale(cumulativeOffset, insertedChars) == cumulativeOffset

\* cumulativeOffset += insertedChars
AddInserted(cumulativeOffset, insertedChars) == cumulativeOffset + insertedChars

\* The approval result ignored
PassesApprovalAlways(approved) == TRUE

\* if (!approved) return res.status(403)
PassesApproval(approved) == approved

\* ------------------------------------------------------------------------
\* Inputs of the environment
\* ------------------------------------------------------------------------
Requests == {1, 2}

QA == <<"a", "?">>
QB == <<"b", "?">>
QLong == <<"a", "b", "c", "d", "e", "?">>
AnsweredLine == AnswerMarker \o <<SP, "4">>

\* Documents on the server when the behaviour starts
Doc1 == <<Opaque>> \o QA \o <<NL>>
Doc2 == <<Opaque>> \o QA \o <<NL>> \o QB \o <<NL>>
Doc3 == <<Opaque>> \o QA \o <<NL>> \o AnsweredLine \o <<NL>>
Doc4 == <<Opaque>> \o QLong \o <<NL>> \o <<NL>> \o QB \o <<NL>>
Doc5 == <<Opaque>> \o QB \o <<NL, Opaque>> \o <<SP>> \o QA \o <<NL>>
Doc6 == <<Opaque>> \o QLong \o <<NL>> \o AnsweredLine \o <<NL>>
Doc7 == <<Opaque>> \o QA \o <<NL>> \o QA \o <<SP>> \o QA \o <<NL>>
Documents == {Doc1, Doc2, Doc3, Doc4, Doc5, Doc6, Doc7}

\* Replies of the question detector
\* (a reply that is not ok carries the text that could not be parsed)
DetectorReplies ==
  {[ok |-> FALSE, list |-> <<QA>>],
   [ok |-> TRUE, list |-> <<>>],
   [ok |-> TRUE, list |-> <<QA>>],
   [ok |-> TRUE, list |-> <<QB, QA>>],
   [ok |-> TRUE, list |-> <<QA, <<SP>> \o QA>>],
   [ok |-> TRUE, list |-> <<QA, <<"A">>>>],
   [ok |-> TRUE, list |-> <<<<"!">>>>],
   [ok |-> TRUE, list |-> <<<<>>, QB>>],
   [ok |-> TRUE, list |-> <<<<"a", "b", "c", "d", "x">>, <<"a", "b", "c", "x", "x">>>>],
   [ok |-> TRUE, list |-> <<<<"x", "x">>, QB>>]}

RECURSIVE WordsOfA(_)
WordsOfA(n) == IF n <= 1 THEN <<"a">> ELSE <<"a", SP>> \o WordsOfA(n - 1)

\* Replies of the answer generator
AnswerReplies ==
  {[ok |-> FALSE, content |-> <<>>],
   [ok |-> TRUE, content |-> <<SP>>],
   [ok |-> TRUE, content |-> <<"4">>],
   [ok |-> TRUE, content |-> WordsOfA(MaxAnswerWords) \o <<NL>>]}

\* Results of drive.files.get(owners)
OwnerLookups ==
  {[ok |-> FALSE, owners |-> <<>>],
   [ok |-> TRUE, owners |-> <<>>],
   [ok |-> TRUE, owners |-> <<"stranger@gmail.com">>],
   [ok |-> TRUE, owners |-> <<"Stranger@Gmail.com", "ZARFIX.42@GMAIL.COM">>],
   [ok |-> TRUE, owners |-> <<Undefined, "zarfix.42@gmail.com">>],
   [ok |-> TRUE, owners |-> <<"dennis24.f@gmail.com", Undefined>>],
   [ok |-> TRUE, owners |-> <<"zarfix.42@gmail.com", NullOwner>>],
   [ok |-> TRUE, owners |-> <<Undefined>>]}

\* ------------------------------------------------------------------------
\* State
\* ------------------------------------------------------------------------
VARIABLES
  docText,   \* the document on the Docs server
  env,       \* what the collaborators may answer in this behaviour
  failLeft,  \* batchUpdate failures still allowed (bound)
  req,       \* req[r]: the locals of the handler serving request r
  probe,     \* the last direct call of a helper function and its result
  poll       \* the polling variant: processedDocs and the running cycles

vars == <<docText, env, failLeft, req, probe, poll>>

\* Locals of one handler.  passedIndex, returned, calls, issued, origin,
\* approved, fetched, replyOk, attempted and passed are history: they record
\* what the handler did.  pauseWords is the pause being taken, in units of the
\* per-word delay, sent the number of responses sent.  after is the set of
\* requests that had ended when this one fetched, tried the texts of the
\* questions an insertion was issued for, answered those whose answer was
\* committed to its last chunk.  detected is detectedQuestions of parseQuestions.
IdleRequest ==
  [pc |-> "idle", status |-> 0, message |-> "none", approved |-> FALSE,
   content |-> <<>>, questions |-> <<>>, qi |-> 0, cumulativeOffset |-> 0,
   words |-> <<>>, i |-> 0, chunk |-> <<>>, insertIndex |-> 0,
   totalInserted |-> 0,
   passedIndex |-> 0, returned |-> <<>>, calls |-> <<>>, issued |-> 0,
   origin |-> <<>>, fetched |-> "pending",
   detected |-> <<>>, replyOk |-> TRUE, attempted |-> <<>>, passed |-> <<>>,
   pauseWords |-> 0, sent |-> 0,
   after |-> {}, tried |-> {}, answered |-> {}]

\* version: 1 is the earlier server.cjs of the file, 2 the later one
Env(version, indexed, clients, replies, answers) ==
  [version |-> version, indexed |-> indexed, clients |-> clients,
   replies |-> replies, answers |-> answers]

Versions == {1, 2}

\* Only the later version reads the paragraph's own endIndex
Shapes == {<<1, FALSE>>, <<2, FALSE>>, <<2, TRUE>>}

MaxCycles == 2
Cycles == 1..MaxCycles

IdleCycle == [pc |-> "idle", files |-> <<>>]

\* const processedDocs = new Set(), and no interval callback running
NoPoll ==
  [processedDocs |-> {}, cycle |-> [c \in Cycles |-> IdleCycle],
   dispatched |-> <<>>]

NoProbe == [fn |-> "none", content |-> <<>>, arg |-> <<>>, result |-> <<>>]

Init ==
  /\ probe = NoProbe
  /\ poll = NoPoll
  /\ docText \in Documents
  /\ \E shape \in Shapes :
       env = Env(shape[1], shape[2], {1}, DetectorReplies, AnswerReplies)
  /\ failLeft = MaxFailures
  /\ req = [r \in Requests |-> IdleRequest]

\* Two clients post the same document id
InitTwo ==
  /\ probe = NoProbe
  /\ poll = NoPoll
  /\ docText \in {Doc2}
  /\ \E shape \in Shapes :
       env = Env(shape[1], shape[2], Requests,
                 {[ok |-> FALSE, list |-> <<QA>>], [ok |-> TRUE, list |-> <<QB, QA>>]},
                 {[ok |-> FALSE, content |-> <<>>], [ok |-> TRUE, content |-> <<"4">>]})
  /\ failLeft = MaxFailures
  /\ req = [r \in Requests |-> IdleRequest]

Respond(rec, status, message) ==
  [rec EXCEPT !.pc = "done", !.status = status, !.message = message,
              !.sent = @ + 1]

\* The request arrives; `if (!terms) return res.status(400)` in the later
\* version
Start(r) ==
  /\ r \in env.clients
  /\ req[r].pc = "idle"
  /\ \E terms \in BOOLEAN :
       req' = [req EXCEPT ![r] =
                 IF env.version = 2 /\ ~terms THEN Respond(@, 400, "terms")
                 ELSE [@ EXCEPT !.pc = "approve"]]
  /\ UNCHANGED <<docText, env, failLeft, probe, poll>>

\* await isDocumentOwnerApproved(documentId) resolves
Approve(r) ==
  /\ req[r].pc = "approve"
  /\ \E lookup \in OwnerLookups :
       LET approved == isDocumentOwnerApproved(lookup)
       IN req' = [req EXCEPT ![r] =
                    IF ~PassesApproval(approved)
                    THEN Respond([@ EXCEPT !.approved = approved], 403, "unauthorized")
                    ELSE [@ EXCEPT !.approved = approved, !.pc = "fetch"]]
  /\ UNCHANGED <<docText, env, failLeft, probe, poll>>

\* await fetchDocument(documentId) resolves with the document
FetchOk(r) ==
  /\ req[r].pc = "fetch"
  /\ req' = [req EXCEPT ![r] =
               [@ EXCEPT !.pc = "detect",
                         !.fetched = "ok",
                         !.after = {q \in Requests : req[q].pc = "done"},
                         !.content = fetchDocument(docText, env.indexed),
                         !.origin = [k \in 1..Len(docText) |-> k - 1]]]
  /\ UNCHANGED <<docText, env, failLeft, probe, poll>>

\* fetchDocument throws: the catch of the handler answers 500
FetchFail(r) ==
  /\ req[r].pc = "fetch"
  /\ req' = [req EXCEPT ![r] = Respond([@ EXCEPT !.fetched = "failed"], 500, "error")]
  /\ UNCHANGED <<docText, env, failLeft, probe, poll>>

\* The for loop moves to the next question (awaiting generateAnswer), or
\* the handler sends the success response when none is left
NextQuestion(rec) ==
  IF rec.qi + 1 > Len(rec.questions)
  THEN Respond(rec, 200, "processed")
  ELSE [rec EXCEPT !.qi = @ + 1, !.pc = "generate",
                   !.attempted = Append(@, rec.qi + 1)]

\* The missing answer reported as a failure of the request
NoAnswerFails(rec) == Respond(rec, 500, "error")

\* if (!answer) { ...; continue }
NoAnswer(rec) == NextQuestion(rec)

\* simulateTypingAndInsert returns totalInserted to the handler
FinishTyping(rec) ==
  LET insertedChars == rec.totalInserted
  IN NextQuestion([rec EXCEPT
       !.cumulativeOffset = AddInserted(@, insertedChars),
       !.returned = Append(@, insertedChars)])

\* The failure ends the handler instead of the answer
BreakBatch(rec) == Respond(rec, 500, "error")

\* break out of the chunk loop: only this answer ends
BreakChunks(rec) == FinishTyping(rec)

\* A batchUpdate(insertText) call leaves for the Docs server
Issue(rec, text) ==
  [rec EXCEPT !.issued = @ + 1,
              !.tried = @ \cup {rec.questions[rec.qi].text},
              !.calls = Append(@, [i |-> rec.i, index |-> rec.insertIndex,
                                   text |-> text, result |-> "pending"])]

Settle(rec, result) ==
  [rec EXCEPT !.calls = [@ EXCEPT ![Len(@)].result = result]]

\* await parseQuestions(document) resolves: the detector replied.  In the
\* earlier version the locating loop may never end ("hung").
Detect(r) ==
  /\ req[r].pc = "detect"
  /\ \E reply \in env.replies :
       LET hangs == env.version = 1 /\ LoopsForever(detectQuestions(reply))
           questions == IF hangs THEN <<>>
                        ELSE IF env.version = 1
                             THEN parseQuestionsEarlier(req[r].content, reply)
                             ELSE parseQuestions(req[r].content, reply)
       IN req' = [req EXCEPT ![r] =
                    LET rec == [@ EXCEPT !.detected = detectQuestions(reply),
                                         !.replyOk = reply.ok]
                    IN IF hangs THEN [rec EXCEPT !.pc = "hung"]
                       ELSE IF Len(questions) = 0
                       THEN Respond(rec, 200, "no questions")
                       ELSE [rec EXCEPT !.questions = SortByEndIndex(questions),
                                        !.cumulativeOffset = 0,
                                        !.qi = 1,
                                        !.attempted = <<1>>,
                                        !.pc = "generate"]]
  /\ UNCHANGED <<docText, env, failLeft, probe, poll>>

\* await generateAnswer(question.text) resolves; with an answer and a valid
\* index simulateTypingAndInsert runs up to its first batchUpdate
Generate(r) ==
  /\ req[r].pc = "generate"
  /\ \E reply \in env.answers :
       LET rec == req[r]
           answer == generateAnswer(reply)
           insertIndex == AdjustedIndex(rec.questions[rec.qi].endIndex,
                                        rec.cumulativeOffset)
           words == Split(FullAnswer(answer))
       IN req' = [req EXCEPT ![r] =
                    IF answer = Null THEN NoAnswer(rec)
                    ELSE IF SkipsIndex(insertIndex) THEN NextQuestion(rec)
                    ELSE Issue([rec EXCEPT !.words = words,
                                           !.i = 0,
                                           !.chunk = ChunkAt(words, 0),
                                           !.insertIndex = insertIndex,
                                           !.passedIndex = insertIndex,
                                           !.passed = Append(@, insertIndex),
                                           !.totalInserted = 0,
                                           !.calls = <<>>,
                                           !.pc = "insert"],
                               ChunkAt(words, 0))]
  /\ UNCHANGED <<docText, env, failLeft, probe, poll>>

\* The Docs server applies an insertion: every handler's view of where its
\* snapshot's characters now are moves with it
Commit(r, rec, index, text) ==
  /\ docText' = InsertText(docText, index, text)
  /\ req' = [q \in Requests |->
               LET base == IF q = r THEN rec ELSE req[q]
               IN IF base.origin = <<>> THEN base
                  ELSE [base EXCEPT !.origin =
                          InsertText(@, index, [k \in 1..Len(text) |-> -1])]]

\* The first batchUpdate of a chunk resolves
InsertOk(r) ==
  /\ req[r].pc = "insert"
  /\ CanInsert(docText, req[r].insertIndex)
  /\ LET rec == req[r]
     IN Commit(r, [Settle(rec, "ok") EXCEPT
                     !.totalInserted = Advance(@, rec.chunk),
                     !.insertIndex = Advance(@, rec.chunk),
                     !.pauseWords = PauseWords(rec.words, rec.i),
                     !.pc = "pause"],
               rec.insertIndex, rec.chunk)
  /\ UNCHANGED <<env, failLeft, probe, poll>>

\* The first batchUpdate of a chunk rejects: the catch block sends the chunk
\* again behind a newline (later version) or breaks (earlier version)
InsertFail(r) ==
  /\ req[r].pc = "insert"
  /\ ~CanInsert(docText, req[r].insertIndex) \/ failLeft > 0
  /\ failLeft' = IF CanInsert(docText, req[r].insertIndex)
                 THEN failLeft - 1 ELSE failLeft
  /\ req' = [req EXCEPT ![r] =
               IF env.version = 1 THEN BreakChunks(Settle(@, "failed"))
               ELSE Issue([Settle(@, "failed") EXCEPT !.pc = "recover"],
                          RecoveryText(@.chunk))]
  /\ UNCHANGED <<docText, env, probe, poll>>

\* The recovery batchUpdate resolves
RecoverOk(r) ==
  /\ req[r].pc = "recover"
  /\ CanInsert(docText, req[r].insertIndex)
  /\ LET rec == req[r]
     IN Commit(r, [Settle(rec, "ok") EXCEPT
                     !.totalInserted = AdvanceRecovered(@, rec.chunk),
                     !.insertIndex = AdvanceRecovered(@, rec.chunk),
                     !.pauseWords = PauseWords(rec.words, rec.i),
                     !.pc = "pause"],
               rec.insertIndex, RecoveryText(rec.chunk))
  /\ UNCHANGED <<env, failLeft, probe, poll>>

\* The recovery batchUpdate rejects too: break, return totalInserted
RecoverFail(r) ==
  /\ req[r].pc = "recover"
  /\ ~CanInsert(docText, req[r].insertIndex) \/ failLeft > 0
  /\ failLeft' = IF CanInsert(docText, req[r].insertIndex)
                 THEN failLeft - 1 ELSE failLeft
  /\ req' = [req EXCEPT ![r] = BreakChunks(Settle(@, "failed"))]
  /\ UNCHANGED <<docText, env, probe, poll>>

\* The pause after a chunk ends: next chunk, or return totalInserted
Pause(r) ==
  /\ req[r].pc = "pause"
  /\ LET rec == req[r]
         i == rec.i + chunkSize
     IN req' = [req EXCEPT ![r] =
                  IF i < Len(rec.words)
                  THEN Issue([rec EXCEPT !.i = i,
                                         !.chunk = ChunkAt(rec.words, i),
                                         !.pc = "insert"],
                             ChunkAt(rec.words, i))
                  ELSE FinishTyping([rec EXCEPT !.answered =
                                       @ \cup {rec.questions[rec.qi].text}])]
  /\ UNCHANGED <<docText, env, failLeft, probe, poll>>

Next ==
  \E r \in Requests :
    \/ Start(r)
    \/ Approve(r)
    \/ FetchOk(r)
    \/ FetchFail(r)
    \/ Detect(r)
    \/ Generate(r)
    \/ InsertOk(r)
    \/ InsertFail(r)
    \/ RecoverOk(r)
    \/ RecoverFail(r)
    \/ Pause(r)

Spec == Init /\ [][Next]_vars

SpecTwo == InitTwo /\ [][Next]_vars

\* ------------------------------------------------------------------------
\* Properties
\* ------------------------------------------------------------------------
RECURSIVE SumSeq(_)
SumSeq(ns) == IF ns = <<>> THEN 0 ELSE Head(ns) + SumSeq(Tail(ns))

Typing(rec) == rec.pc \in {"insert", "recover", "pause"}
InFlight(rec) == rec.pc \in {"insert", "recover"}
Current(rec) == rec.questions[rec.qi]

\* Total length of the texts of the calls that succeeded
RECURSIVE CommittedLen(_)
CommittedLen(calls) ==
  IF calls = <<>> THEN 0
  ELSE (IF Head(calls).result = "ok" THEN Len(Head(calls).text) ELSE 0)
       + CommittedLen(Tail(calls))

\* Docs index at which the character that had index `original` in the
\* snapshot of rec now stands
PositionNow(rec, original) ==
  (CHOOSE k \in 1..Len(rec.origin) : rec.origin[k] = original) - 1

\* Characters inserted into the document since rec fetched it
InsertedSinceFetch(rec) ==
  Cardinality({k \in 1..Len(rec.origin) : rec.origin[k] = -1})

NoOtherWriter(rec) ==
  InsertedSinceFetch(rec) =
    rec.cumulativeOffset + (IF Typing(rec) THEN rec.totalInserted ELSE 0)

\* Every question of rec carries the structural end offset of its paragraph
StructuralEndIndexes(rec) ==
  \A k \in 1..Len(rec.questions) :
    rec.questions[k].endIndex = rec.content[rec.questions[k].para].endIndex

\* C1: the index passed to simulateTypingAndInsert for a question is its
\* endIndex - 1 plus the sum of the counts simulateTypingAndInsert returned
\* for the questions processed before it in the request, and cumulativeOffset
\* is that sum: a skipped question (which returns nothing) leaves it unchanged.
C1_PassedIndexIsEndIndexPlusEarlierReturns ==
  \A r \in Requests :
    /\ req[r].cumulativeOffset = SumSeq(req[r].returned)
    /\ Typing(req[r]) =>
         req[r].passedIndex =
           Current(req[r]).endIndex - 1 + SumSeq(req[r].returned)

C1_Witness ==
  \E r \in Requests :
    /\ req[r].pc = "insert"
    /\ req[r].qi = 2
    /\ Len(req[r].returned) = 1
    /\ req[r].returned[1] > 0

\* C2: with no other writer and every question carrying the structural end
\* offset of its paragraph, the first chunk of each answer is sent to the
\* index where the paragraph's terminating character now stands in the
\* document, whatever the earlier answers of the batch committed.
C2_FirstChunkLandsAtParagraphTerminator ==
  \A r \in Requests :
    (/\ InFlight(req[r])
     /\ req[r].i = 0
     /\ NoOtherWriter(req[r])
     /\ StructuralEndIndexes(req[r]))
    => req[r].insertIndex =
         PositionNow(req[r],
                     req[r].content[Current(req[r]).para].endIndex - 1)

C2_Witness ==
  \E r \in Requests :
    /\ req[r].pc = "recover"
    /\ req[r].i = 0
    /\ req[r].qi = 2
    /\ req[r].cumulativeOffset > 0
    /\ NoOtherWriter(req[r])
    /\ StructuralEndIndexes(req[r])
    /\ Current(req[r]).endIndex > req[r].questions[1].endIndex

\* C3: when the end offset is carried by the content element only, the
\* endIndex of every located question is the endIndex of the element whose
\* paragraph matched.
C3_EndIndexIsElementEndIndex ==
  \A r \in Requests :
    (env.version = 2 /\ ~env.indexed) => StructuralEndIndexes(req[r])

\* The candidate is found in the paragraph: its normalized form is a
\* non-empty substring of the normalized paragraph, or the two are at least
\* 0.8 similar
ActuallyMatches(candidate, paraText) ==
  LET n == normalizeText(candidate)
      l == normalizeText(paraText)
  IN \/ n # <<>> /\ Includes(l, n)
     \/ SimAtLeastThreshold(getLevenshteinDistance(n, l), Max(Len(n), Len(l)))

\* C4: every question parseQuestions returns stands for a paragraph that
\* matches its candidate by the primary or the fallback strategy; a candidate
\* that matches no paragraph is not returned.
C4_ReturnedQuestionsMatchTheirParagraph ==
  \A r \in Requests :
    env.version = 2 =>
    \A k \in 1..Len(req[r].questions) :
      ActuallyMatches(req[r].questions[k].text,
                      ParaText(req[r].content[req[r].questions[k].para]))

\* The paragraph at position k of content is immediately followed by a
\* paragraph whose trimmed text begins with "Answer:"
FollowedByAnswer(content, k) ==
  /\ k + 1 <= Len(content)
  /\ content[k + 1].isParagraph
  /\ StartsWith(ParaText(content[k + 1]), AnswerMarker)

\* C5: no insertion is issued for a question whose paragraph is immediately
\* followed, in the snapshot, by a paragraph beginning with "Answer:".
C5_NoInsertionForAnsweredQuestion ==
  \A r \in Requests :
    (env.version = 2 /\ InFlight(req[r])) => ~FollowedByAnswer(req[r].content, Current(req[r]).para)

\* C6: insertions are issued only after the approval check returned true and
\* the fetch succeeded; a false approval ends in 403 and a failed fetch in
\* 500, both without any insertion.
C6_NoInsertionWithoutApprovalAndFetch ==
  \A r \in Requests :
    /\ req[r].issued > 0 => req[r].approved /\ req[r].fetched = "ok"
    /\ (~req[r].approved /\ req[r].pc \notin {"idle", "approve"}
          /\ req[r].status # 400)
         => req[r].status = 403 /\ req[r].pc = "done" /\ req[r].issued = 0
    /\ req[r].fetched = "failed"
         => req[r].status = 500 /\ req[r].pc = "done" /\ req[r].issued = 0

C6_Witness ==
  \E r \in Requests :
    req[r].pc = "done" /\ req[r].status = 403 /\ ~req[r].approved

\* C7: two insertText calls for the same document are never in flight at the
\* same time.
C7_NoTwoInsertionsInFlight ==
  \A r1, r2 \in Requests :
    r1 # r2 => ~(InFlight(req[r1]) /\ InFlight(req[r2]))

\* C8: the count simulateTypingAndInsert keeps and returns is the total
\* length of the texts whose batchUpdate succeeded, the newline of a
\* successful recovery included, and nothing for a call that failed.
C8_ReturnCountsCommittedTextOnly ==
  \A r \in Requests :
    /\ Typing(req[r]) => req[r].totalInserted = CommittedLen(req[r].calls)
    /\ (~Typing(req[r]) /\ req[r].calls # <<>>)
         => req[r].returned[Len(req[r].returned)] = CommittedLen(req[r].calls)

C8_Witness ==
  \E r \in Requests :
    /\ ~Typing(req[r])
    /\ req[r].returned # <<>>
    /\ req[r].returned[Len(req[r].returned)] > 0
    /\ \E k \in 1..Len(req[r].calls) : req[r].calls[k].result = "failed"
    /\ \E k \in 1..Len(req[r].calls) :
         req[r].calls[k].result = "ok" /\ Head(req[r].calls[k].text) = NL
                                        /\ req[r].calls[k].i > 0

\* C9: when every chunk insertion succeeds at the first attempt, the count
\* returned for "\nAnswer: <answer>\n" is the length of that text.
C9_ReturnIsLengthOfFullAnswer ==
  \A r \in Requests :
    (/\ ~Typing(req[r])
     /\ req[r].calls # <<>>
     /\ \A k \in 1..Len(req[r].calls) : req[r].calls[k].result = "ok")
    => req[r].returned[Len(req[r].returned)] = Len(JoinSpace(req[r].words))

\* C10: a chunk gets at most two insertion calls; the second follows a
\* failed first one, carries the chunk behind one newline and goes to the
\* same index; after a failed second call no call is made for that answer.
C10_AtMostOneRecoveryPerChunk ==
  \A r \in Requests :
    LET calls == req[r].calls
    IN env.version = 2 => \A k \in 1..Len(calls) :
         /\ Cardinality({m \in 1..Len(calls) : calls[m].i = calls[k].i}) <= 2
         /\ (k > 1 /\ calls[k - 1].i = calls[k].i) =>
              /\ calls[k - 1].result = "failed"
              /\ calls[k].text = <<NL>> \o calls[k - 1].text
              /\ calls[k].index = calls[k - 1].index
         /\ (k > 1 /\ calls[k - 1].i # calls[k].i) =>
              calls[k - 1].result = "ok"
         /\ (k = 1 \/ calls[k - 1].i # calls[k].i) =>
              calls[k].text = ChunkAt(req[r].words, calls[k].i)
         /\ (k > 1 /\ calls[k - 1].i = calls[k].i /\ calls[k].result = "failed")
              => k = Len(calls) /\ ~Typing(req[r])

C10_Witness ==
  \E r \in Requests :
    LET calls == req[r].calls
    IN /\ ~Typing(req[r])
       /\ Len(calls) = 3
       /\ calls[1].result = "ok"
       /\ calls[2].result = "failed"
       /\ calls[3].result = "failed"

\* C11: a failed chunk with a failed recovery, or a failed answer
\* generation, ends that question only: the loop asks an answer for every
\* question of the batch in order and the request ends with the success
\* response after the last one.
C11_FailureDoesNotStopBatch ==
  \A r \in Requests :
    Len(req[r].questions) > 0 =>
      /\ req[r].attempted = [k \in 1..req[r].qi |-> k]
      /\ req[r].pc = "done" =>
           req[r].qi = Len(req[r].questions) /\ req[r].status = 200

C11_Witness ==
  \E r \in Requests :
    /\ env.version = 2
    /\ req[r].pc = "generate"
    /\ req[r].qi = 2
    /\ req[r].attempted = <<1, 2>>
    /\ Len(req[r].calls) = 2
    /\ req[r].calls[1].result = "failed"
    /\ req[r].calls[2].result = "failed"

\* C12: no two candidates that reach the locator have the same normalized
\* form.
C12_CandidatesDistinctWhenNormalized ==
  \A r \in Requests :
    \A i, j \in 1..Len(req[r].detected) :
      i # j => normalizeText(req[r].detected[i])
                 # normalizeText(req[r].detected[j])

\* parseQuestions has returned in the later version
Located(rec) ==
  env.version = 2 /\ rec.pc \notin {"idle", "approve", "fetch", "detect"}

\* Some paragraph contains the candidate: the primary search finds it
Contained(lines, candidate) ==
  \E k \in 1..Len(lines) :
    Includes(normalizeText(lines[k].text), normalizeText(candidate))

\* Distance and longer length of the candidate and line k, normalized
DistanceTo(lines, candidate, k) ==
  getLevenshteinDistance(normalizeText(candidate), normalizeText(lines[k].text))

LongerLength(lines, candidate, k) ==
  Max(Len(normalizeText(candidate)), Len(normalizeText(lines[k].text)))

\* Line k has the highest similarity 1 - distance/length to the candidate,
\* and is the first such line
MostSimilar(lines, candidate, k) ==
  /\ LongerLength(lines, candidate, k) > 0
  /\ \A m \in 1..Len(lines) :
       LET dk == DistanceTo(lines, candidate, k)
           lk == LongerLength(lines, candidate, k)
           dm == DistanceTo(lines, candidate, m)
           lm == LongerLength(lines, candidate, m)
       IN IF m < k THEN lm = 0 \/ dk * lm < dm * lk
          ELSE lm = 0 \/ dk * lm <= dm * lk

\* similarity >= 0.8, i.e. 5 * distance <= length
AtLeastFourFifths(lines, candidate, k) ==
  5 * DistanceTo(lines, candidate, k) <= LongerLength(lines, candidate, k)

\* The entry returned for candidate stands for line k
ResolvedTo(rec, lines, candidate, k) ==
  \E q \in 1..Len(rec.questions) :
    /\ rec.questions[q].text = candidate
    /\ rec.questions[q].para = lines[k].para
    /\ rec.questions[q].endIndex = lines[k].endIndex

Returned(rec, candidate) ==
  \E q \in 1..Len(rec.questions) : rec.questions[q].text = candidate

\* C13 as stated: a candidate that no paragraph contains is resolved to the
\* most similar paragraph exactly when the similarity is at least 0.8 and is
\* dropped otherwise; a candidate some paragraph contains never goes through
\* the fallback.
C13_FallbackExactlyAtThreshold ==
  \A r \in Requests :
    Located(req[r]) =>
      LET lines == ExtractLines(req[r].content)
      IN \A c \in 1..Len(req[r].detected) :
           LET candidate == req[r].detected[c]
           IN IF Contained(lines, candidate)
              THEN \A q \in 1..Len(req[r].questions) :
                     req[r].questions[q].text = candidate
                       => req[r].questions[q].via = "primary"
              ELSE /\ \A k \in 1..Len(lines) :
                        (MostSimilar(lines, candidate, k)
                           /\ AtLeastFourFifths(lines, candidate, k))
                        => ResolvedTo(req[r], lines, candidate, k)
                   /\ Returned(req[r], candidate) =>
                        \E k \in 1..Len(lines) :
                          /\ MostSimilar(lines, candidate, k)
                          /\ AtLeastFourFifths(lines, candidate, k)
                          /\ ResolvedTo(req[r], lines, candidate, k)

\* C13 amended: ... exactly when the similarity is at least 0.8 and
\* isQuestionAnswered is false for the endIndex of that paragraph.
C13_FallbackAtThresholdUnlessAnswered ==
  \A r \in Requests :
    Located(req[r]) =>
      LET lines == ExtractLines(req[r].content)
      IN \A c \in 1..Len(req[r].detected) :
           LET candidate == req[r].detected[c]
           IN IF Contained(lines, candidate)
              THEN \A q \in 1..Len(req[r].questions) :
                     req[r].questions[q].text = candidate
                       => req[r].questions[q].via = "primary"
              ELSE /\ \A k \in 1..Len(lines) :
                        (/\ MostSimilar(lines, candidate, k)
                         /\ AtLeastFourFifths(lines, candidate, k)
                         /\ ~isQuestionAnswered(req[r].content, lines[k].endIndex))
                        => ResolvedTo(req[r], lines, candidate, k)
                   /\ Returned(req[r], candidate) =>
                        \E k \in 1..Len(lines) :
                          /\ MostSimilar(lines, candidate, k)
                          /\ AtLeastFourFifths(lines, candidate, k)
                          /\ ~isQuestionAnswered(req[r].content, lines[k].endIndex)
                          /\ ResolvedTo(req[r], lines, candidate, k)

C13_Witness ==
  \E r \in Requests :
    /\ Located(req[r])
    /\ \E q \in 1..Len(req[r].questions) : req[r].questions[q].via = "similarity"
    /\ \E c \in 1..Len(req[r].detected) :
         /\ ~Contained(ExtractLines(req[r].content), req[r].detected[c])
         /\ ~Returned(req[r], req[r].detected[c])

\* Number of places where pattern stands literally in text
Occurrences(text, pattern) ==
  Cardinality({i \in 1..(Len(text) - Len(pattern) + 1) :
                 SubSeq(text, i, i + Len(pattern) - 1) = pattern})

\* Literal occurrences of pattern in the run text of the paragraphs from k on
RECURSIVE OccurrencesFrom(_, _, _)
OccurrencesFrom(content, pattern, k) ==
  IF k > Len(content) THEN 0
  ELSE (IF content[k].isParagraph
        THEN Occurrences(JoinAll(content[k].elements), pattern)
        ELSE 0)
       + OccurrencesFrom(content, pattern, k + 1)

\* No paragraph of the snapshot is an answer line
NoAnswerLine(content) ==
  \A k \in 1..Len(content) :
    content[k].isParagraph => ~StartsWith(ParaText(content[k]), AnswerMarker)

\* The question locator has returned
LocatorReturned(rec) ==
  rec.pc \notin {"idle", "approve", "fetch", "detect", "hung"}

\* C14: a candidate that occurs literally k times in the document text gets k
\* question entries from the locator, one per occurrence (stated for a
\* detector reply of one candidate with a letter or digit in it and a document
\* without answer lines, so that every entry returned belongs to that candidate and none is
\* filtered as answered).
C14_OneEntryPerLiteralOccurrence ==
  \A r \in Requests :
    (/\ LocatorReturned(req[r])
     /\ req[r].fetched = "ok"
     /\ Len(req[r].detected) = 1
     /\ normalizeText(req[r].detected[1]) # <<>>
     /\ NoAnswerLine(req[r].content))
    => Len(req[r].questions)
         = OccurrencesFrom(req[r].content, req[r].detected[1], 1)

\* C17: when the detector call fails or its content does not parse as a list
\* of strings, detectQuestions returns the empty list, the request ends with
\* status 200 reporting no detectable questions, and no insertion is issued.
C17_DetectorFailureMeansNoQuestions ==
  \A r \in Requests :
    ~req[r].replyOk =>
      /\ req[r].detected = <<>>
      /\ req[r].questions = <<>>
      /\ req[r].pc = "done"
      /\ req[r].status = 200
      /\ req[r].message = "no questions"
      /\ req[r].issued = 0
      /\ req[r].calls = <<>>

C17_Witness ==
  \E r \in Requests :
    /\ ~req[r].replyOk
    /\ req[r].fetched = "ok"
    /\ req[r].pc = "done"
    /\ req[r].status = 200

\* C18: whatever candidates the detector returns, empty or punctuation-only
\* ones included, question location terminates: no request is ever left in
\* the locating loop with regex.exec returning the same match again.
C18_LocatingTerminates ==
  \A r \in Requests : req[r].pc # "hung"

\* C19: within one request the insertion indices passed for successive
\* questions never decrease.
C19_InsertionIndicesNonDecreasing ==
  \A r \in Requests :
    \A i, j \in 1..Len(req[r].passed) :
      i <= j => req[r].passed[i] <= req[r].passed[j]

C19_Witness ==
  \E r \in Requests :
    /\ Len(req[r].passed) = 2
    /\ req[r].passed[1] < req[r].passed[2]
    /\ req[r].cumulativeOffset > 0
    /\ req[r].detected = <<QB, QA>>

\* ------------------------------------------------------------------------
\* Direct calls of isQuestionAnswered, mapCharacterIndexToEndIndex and
\* isDocumentOwnerApproved
\* ------------------------------------------------------------------------
\* An answer line with leading blanks, and a lower-case one
Doc8 == <<Opaque>> \o QA \o <<NL, SP>> \o AnsweredLine \o <<NL>>
Doc9 == <<Opaque>> \o QA \o <<NL>> \o ToLowerCase(AnsweredLine) \o <<NL>>
            \o AnsweredLine \o <<NL>>
ProbeDocuments == Documents \cup {Doc8, Doc9}

\* Where the text of a paragraph may be cut into two text runs
Cuts == {0, 1}

\* The same content with every paragraph longer than cut in two text runs
SplitRuns(content, cut) ==
  [k \in 1..Len(content) |->
     LET text == JoinAll(content[k].elements)
     IN IF content[k].isParagraph /\ cut > 0 /\ Len(text) > cut
        THEN [content[k] EXCEPT !.elements =
                <<SubSeq(text, 1, cut), SubSeq(text, cut + 1, Len(text))>>]
        ELSE content[k]]

InitFn ==
  /\ probe = NoProbe
  /\ poll = NoPoll
  /\ docText \in ProbeDocuments
  /\ \E shape \in Shapes :
       env = Env(shape[1], shape[2], {}, DetectorReplies, AnswerReplies)
  /\ failLeft = 0
  /\ req = [r \in Requests |-> IdleRequest]

ProbeAnswered ==
  /\ \E cut \in Cuts : \E offset \in 0..(Len(docText) + 1) :
       LET content == SplitRuns(fetchDocument(docText, env.indexed), cut)
       IN probe' = [fn |-> "isQuestionAnswered", content |-> content,
                    arg |-> offset,
                    result |-> isQuestionAnswered(content, offset)]
  /\ UNCHANGED <<docText, env, failLeft, req, poll>>

ProbeMap ==
  /\ \E cut \in Cuts :
       LET content == SplitRuns(fetchDocument(docText, env.indexed), cut)
       IN \E characterIndex \in 0..(Len(FullText(content)) + 1) :
            probe' = [fn |-> "mapCharacterIndexToEndIndex",
                      content |-> content, arg |-> characterIndex,
                      result |-> mapCharacterIndexToEndIndex(content,
                                                             characterIndex)]
  /\ UNCHANGED <<docText, env, failLeft, req, poll>>

ProbeOwner ==
  /\ \E lookup \in OwnerLookups :
       probe' = [fn |-> "isDocumentOwnerApproved", content |-> <<>>,
                 arg |-> lookup, result |-> isDocumentOwnerApproved(lookup)]
  /\ UNCHANGED <<docText, env, failLeft, req, poll>>

\* endIndex values a question may carry: nan says the value is not a number
EndIndexInputs ==
  {[nan |-> FALSE, n |-> n] : n \in -1..3} \cup {[nan |-> TRUE, n |-> 0]}

OffsetInputs == 0..2

\* One turn of the for loop of the later handler with an answer at hand, up
\* to the first batchUpdate: question.endIndex - 1 + cumulativeOffset (NaN
\* when endIndex is no number, and NaN < 0 is false), the safeguard, and the
\* validation at the head of simulateTypingAndInsert, which returns 0
LoopTurn(endIndex, cumulativeOffset) ==
  LET insertIndex ==
        [nan |-> endIndex.nan,
         n |-> IF endIndex.nan THEN 0
               ELSE AdjustedIndex(endIndex.n, cumulativeOffset)]
  IN IF ~insertIndex.nan /\ SkipsIndex(insertIndex.n)
     THEN [issued |-> FALSE, insertIndex |-> insertIndex,
           cumulativeOffset |-> cumulativeOffset]
     ELSE IF insertIndex.nan
          THEN [issued |-> FALSE, insertIndex |-> insertIndex,
                cumulativeOffset |-> AddInserted(cumulativeOffset, 0)]
          ELSE [issued |-> TRUE, insertIndex |-> insertIndex,
                cumulativeOffset |-> cumulativeOffset]

ProbeLoopTurn ==
  /\ \E endIndex \in EndIndexInputs : \E cumulativeOffset \in OffsetInputs :
       probe' = [fn |-> "loop turn", content |-> <<>>,
                 arg |-> [endIndex |-> endIndex,
                          cumulativeOffset |-> cumulativeOffset],
                 result |-> LoopTurn(endIndex, cumulativeOffset)]
  /\ UNCHANGED <<docText, env, failLeft, req, poll>>

MaxStringLen == 2

\* The strings handed to getLevenshteinDistance
Strings ==
  UNION {[1..n -> {"a", "b"}] : n \in 0..MaxStringLen}

ProbeDistance ==
  /\ \E a \in Strings : \E b \in Strings :
       probe' = [fn |-> "getLevenshteinDistance", content |-> <<>>,
                 arg |-> [a |-> a, b |-> b],
                 result |-> [ab |-> getLevenshteinDistance(a, b),
                             ba |-> getLevenshteinDistance(b, a)]]
  /\ UNCHANGED <<docText, env, failLeft, req, poll>>

NextFn ==
  \/ ProbeAnswered
  \/ ProbeMap
  \/ ProbeOwner
  \/ ProbeLoopTurn
  \/ ProbeDistance

SpecFn == InitFn /\ [][NextFn]_vars

\* Block k of content is a paragraph, ends at offset, and is followed by a
\* paragraph whose run text, trimmed, begins with "Answer:"
AnswerFollows(content, offset, k) ==
  /\ content[k].endIndex = offset
  /\ content[k].isParagraph
  /\ k + 1 <= Len(content)
  /\ content[k + 1].isParagraph
  /\ StartsWith(Trim(JoinAll(content[k + 1].elements)), AnswerMarker)

\* C15: isQuestionAnswered(content, offset) is true exactly when some block
\* ends at offset, is a paragraph, and is followed by a paragraph whose
\* concatenated run text, trimmed, begins with "Answer:"; it is false when no
\* block ends at offset or the block is the last; the snapshot it was given is
\* the document as fetched, unchanged.
C15_AnsweredExactlyWhenAnswerLineFollows ==
  probe.fn = "isQuestionAnswered" =>
    /\ probe.result =
         (\E k \in 1..Len(probe.content) :
            AnswerFollows(probe.content, probe.arg, k))
    /\ (\A k \in 1..Len(probe.content) :
          probe.content[k].endIndex # probe.arg) => probe.result = FALSE
    /\ probe.content[Len(probe.content)].endIndex = probe.arg
         => probe.result = FALSE
    /\ \E cut \in Cuts :
         probe.content = SplitRuns(fetchDocument(docText, env.indexed), cut)

C15_Witness ==
  /\ probe.fn = "isQuestionAnswered"
  /\ probe.result = TRUE
  /\ docText = Doc8
  /\ Len(probe.content[2].elements) = 2

\* Owner k is a record whose address, lower-cased, is an approved address
OwnerApproved(owners, k) ==
  /\ owners[k] \notin {Undefined, NullOwner}
  /\ \E a \in 1..Len(approvedEmails) :
       EmailToLowerCase(owners[k]) = EmailToLowerCase(approvedEmails[a])

\* The try block throws: the lookup fails, an entry is null, or owners.some
\* reaches a record without emailAddress before an approved owner
LookupThrows(lookup) ==
  \/ ~lookup.ok
  \/ \E k \in 1..Len(lookup.owners) : lookup.owners[k] = NullOwner
  \/ \E k \in 1..Len(lookup.owners) :
       /\ lookup.owners[k] = Undefined
       /\ \A j \in 1..(k - 1) : ~OwnerApproved(lookup.owners, j)

\* C16: isDocumentOwnerApproved returns false whenever the lookup fails or
\* throws, true only if some owner's address, compared case-insensitively, is
\* approved, and always returns a boolean (no error reaches the caller).
C16_ApprovalFailsClosed ==
  probe.fn = "isDocumentOwnerApproved" =>
    /\ probe.result \in BOOLEAN
    /\ LookupThrows(probe.arg) => probe.result = FALSE
    /\ probe.result = TRUE =>
         \E k \in 1..Len(probe.arg.owners) : OwnerApproved(probe.arg.owners, k)

C16_Witness ==
  /\ probe.fn = "isDocumentOwnerApproved"
  /\ probe.arg.ok
  /\ LookupThrows(probe.arg)
  /\ \E k \in 1..Len(probe.arg.owners) : OwnerApproved(probe.arg.owners, k)
  /\ probe.result = FALSE

\* For each character of the flattened text the paragraph it belongs to, 0
\* for the separator appended after each paragraph
RECURSIVE OwnersFrom(_, _)
OwnersFrom(content, k) ==
  IF k > Len(content) THEN <<>>
  ELSE (IF content[k].isParagraph
        THEN [i \in 1..Len(JoinAll(content[k].elements)) |-> k] \o <<0>>
        ELSE <<>>)
       \o OwnersFrom(content, k + 1)

\* The last position of the flattened text that belongs to a text run
LastRunPosition(owners) ==
  LET run == {i \in 1..Len(owners) : owners[i] # 0}
  IN IF run = {} THEN 0 ELSE CHOOSE i \in run : \A j \in run : j <= i

\* C20: in the earlier version, for a match whose last character lies in the
\* run text of paragraph P of the flattened text, mapCharacterIndexToEndIndex
\* of the match's end index is the endIndex of P; the positions it counts are
\* those of the flattening (one separator per paragraph, nothing for other
\* blocks); null is returned only beyond the last run's text.
C20_MatchEndMapsToItsParagraph ==
  probe.fn = "mapCharacterIndexToEndIndex" =>
    LET owners == OwnersFrom(probe.content, 1)
        end == probe.arg
    IN /\ Len(owners) = Len(FullText(probe.content))
       /\ \A i \in 1..Len(owners) :
            owners[i] = 0 => FullText(probe.content)[i] = NL
       /\ (end \in 1..Len(owners) /\ owners[end] # 0)
            => probe.result = probe.content[owners[end]].endIndex
       /\ probe.result = NoIndex => end > LastRunPosition(owners)

C20_Witness ==
  /\ probe.fn = "mapCharacterIndexToEndIndex"
  /\ docText = Doc5
  /\ Len(probe.content) = 4
  /\ Len(probe.content[4].elements) = 2
  /\ probe.arg = Len(FullText(probe.content)) - 1
  /\ probe.result = probe.content[4].endIndex

FileLists ==
  {<<>>, <<"d1">>, <<"d1", "d2">>, <<"d2", "d1", "d2">>, <<"d3", "d1">>}

InitPoll ==
  /\ probe = NoProbe
  /\ poll = NoPoll
  /\ docText = Doc1
  /\ env = Env(1, FALSE, {}, DetectorReplies, AnswerReplies)
  /\ failLeft = 0
  /\ req = [r \in Requests |-> IdleRequest]

\* The identifier never remembered
AddProcessedNever(processedDocs, id) == processedDocs

\* processedDocs.add(file.id)
AddProcessed(processedDocs, id) == processedDocs \cup {id}

\* for (const file of files) up to the next await: the files already in
\* processedDocs are passed over; the first other one is added, dispatched
\* and awaited; with none the callback returns
RECURSIVE RunLoop(_, _, _)
RunLoop(p, c, files) ==
  IF files = <<>>
  THEN [p EXCEPT !.cycle[c] = IdleCycle]
  ELSE IF Head(files) \in p.processedDocs
       THEN RunLoop(p, c, Tail(files))
       ELSE [p EXCEPT !.processedDocs = AddProcessed(@, Head(files)),
                      !.dispatched = Append(@, Head(files)),
                      !.cycle[c] = [pc |-> "handle", files |-> Tail(files)]]

\* The interval fires: processNewSharedDocs awaits drive.files.list
Tick(c) ==
  /\ poll.cycle[c].pc = "idle"
  /\ poll' = [poll EXCEPT !.cycle[c].pc = "list"]
  /\ UNCHANGED <<docText, env, failLeft, req, probe>>

\* drive.files.list resolves
ListOk(c) ==
  /\ poll.cycle[c].pc = "list"
  /\ \E files \in FileLists : poll' = RunLoop(poll, c, files)
  /\ UNCHANGED <<docText, env, failLeft, req, probe>>

\* drive.files.list rejects, or app._router.handle throws: catch (err)
PollFail(c) ==
  /\ poll.cycle[c].pc \in {"list", "handle"}
  /\ poll' = [poll EXCEPT !.cycle[c] = IdleCycle]
  /\ UNCHANGED <<docText, env, failLeft, req, probe>>

\* await app._router.handle(...) resolves: the loop goes on
HandleDone(c) ==
  /\ poll.cycle[c].pc = "handle"
  /\ poll' = RunLoop(poll, c, poll.cycle[c].files)
  /\ UNCHANGED <<docText, env, failLeft, req, probe>>

NextPoll ==
  \E c \in Cycles : Tick(c) \/ ListOk(c) \/ PollFail(c) \/ HandleDone(c)

SpecPoll == InitPoll /\ [][NextPoll]_vars

NoDuplicates(seq) ==
  \A i, j \in 1..Len(seq) : i # j => seq[i] # seq[j]

\* C22: in the polling variant each document identifier is dispatched at most
\* once, across cycles and when cycles overlap, and processedDocs only grows.
C22_DispatchedAtMostOnce ==
  [][/\ poll.processedDocs \subseteq poll'.processedDocs
     /\ NoDuplicates(poll'.dispatched)]_vars

C22_Witness ==
  /\ Len(poll.dispatched) = 3
  /\ poll.cycle[1].pc = "handle"
  /\ poll.cycle[2].pc = "handle"

\* Number of words of the chunk that starts at word i
WordsInChunk(words, i) ==
  IF i + chunkSize <= Len(words) THEN chunkSize ELSE Len(words) - i

\* C23: the pause after a chunk is the per-word delay times the number of
\* words of that chunk, so a last chunk of fewer than 5 words is followed by
\* a shorter pause.
C23_PauseProportionalToChunkWords ==
  \A r \in Requests :
    req[r].pc = "pause" =>
      req[r].pauseWords = WordsInChunk(req[r].words, req[r].i)

\* C24: once approval and fetch succeeded and a question was located, the
\* request ends with the success response whatever happens to the questions
\* (no answer generated, failed or partial insertions), and one response is
\* sent.
C24_LocatedQuestionsEndInSuccess ==
  \A r \in Requests :
    (req[r].approved /\ req[r].fetched = "ok" /\ Len(req[r].questions) > 0)
    => /\ req[r].pc = "done" =>
            /\ req[r].status = 200
            /\ req[r].message = "processed"
            /\ req[r].sent = 1
       /\ req[r].pc # "done" => req[r].sent = 0

C24_Witness ==
  \E r \in Requests :
    /\ req[r].pc = "done"
    /\ req[r].status = 200
    /\ Len(req[r].questions) = 2
    /\ req[r].returned = <<0>>
    /\ Len(req[r].calls) = 2
    /\ req[r].calls[2].result = "failed"

\* The least number of insertions, deletions and substitutions of one
\* character that turn a into b
RECURSIVE EditDistance(_, _)
EditDistance(a, b) ==
  IF a = <<>> THEN Len(b)
  ELSE IF b = <<>> THEN Len(a)
  ELSE Min3(EditDistance(Tail(a), b) + 1,
            EditDistance(a, Tail(b)) + 1,
            EditDistance(Tail(a), Tail(b))
              + (IF Head(a) = Head(b) THEN 0 ELSE 1))

\* C25: getLevenshteinDistance(a, b) is the edit distance of a and b: 0
\* exactly when a = b, the same for (b, a), the other string's length when
\* one is empty, and at most the longer length.
C25_LevenshteinDistance ==
  probe.fn = "getLevenshteinDistance" =>
    LET a == probe.arg.a
        b == probe.arg.b
        distance == probe.result.ab
    IN /\ distance = EditDistance(a, b)
       /\ (distance = 0) = (a = b)
       /\ distance = probe.result.ba
       /\ a = <<>> => distance = Len(b)
       /\ b = <<>> => distance = Len(a)
       /\ distance <= Max(Len(a), Len(b))

C25_Witness ==
  /\ probe.fn = "getLevenshteinDistance"
  /\ probe.arg.a = <<"a", "b">>
  /\ probe.arg.b = <<"b", "a">>
  /\ probe.result.ab = 2

\* Call k is the second attempt at its chunk
IsRecovery(calls, k) == k > 1 /\ calls[k - 1].i = calls[k].i

\* C26: every insertion call of simulateTypingAndInsert carries at most 5
\* consecutive words of the answer in their order, at the starting index plus
\* the length of the text the earlier calls for this answer committed; a
\* failed call moves nothing.
C26_ChunksOfFiveAtAdvancingIndex ==
  \A r \in Requests :
    \A k \in 1..Len(req[r].calls) :
      LET call == req[r].calls[k]
          words == req[r].words
          last == IF call.i + 5 <= Len(words) THEN call.i + 5 ELSE Len(words)
      IN /\ call.i % 5 = 0
         /\ call.i < Len(words)
         /\ call.text =
              (IF IsRecovery(req[r].calls, k) THEN <<NL>> ELSE <<>>)
              \o JoinSpace(SubSeq(words, call.i + 1, last)) \o <<SP>>
         /\ call.index =
              req[r].passedIndex + CommittedLen(SubSeq(req[r].calls, 1, k - 1))

C26_Witness ==
  \E r \in Requests :
    /\ req[r].pc = "insert"
    /\ Len(req[r].calls) = 3
    /\ req[r].calls[1].result = "failed"
    /\ req[r].calls[2].result = "ok"
    /\ req[r].calls[3].i = 5
    /\ req[r].calls[3].index = req[r].passedIndex + Len(req[r].calls[2].text)

\* Request second ran after request first had ended, on the document first
\* left, with the detector returning the same questions
RunsAgain(first, second) ==
  /\ first # second
  /\ first \in req[second].after
  /\ req[second].pc \notin {"idle", "approve", "fetch", "detect"}
  /\ req[second].detected = req[first].detected

\* C27: in the later version, when a document is processed and then fetched
\* and processed again with the same detected questions, the second run
\* issues no insertion for a question whose answer the first run committed,
\* at the first attempt or through the recovery (stated for paragraphs that
\* carry their own endIndex, where every question has the structural end
\* offset of its paragraph).
C27_SecondRunInsertsNothingAnswered ==
  \A first, second \in Requests :
    (env.version = 2 /\ env.indexed /\ RunsAgain(first, second))
    => req[first].answered \cap req[second].tried = {}

\* C28: in the later version parseQuestions never returns two question
\* entries with the same endIndex, so that no paragraph gets two answers in
\* one request.
C28_OneQuestionPerParagraph ==
  \A r \in Requests :
    env.version = 2 =>
      \A i, j \in 1..Len(req[r].questions) :
        i # j => req[r].questions[i].endIndex # req[r].questions[j].endIndex

\* ------------------------------------------------------------------------
\* The webhook variant: app.post('/webhook') of part_000
\* ------------------------------------------------------------------------
\* parseQuestions of the variant: a paragraph whose first text run, trimmed,
\* ends with "?" is a question; answered when the first run of the next
\* paragraph starts with "Answer:".  index is the position in content.
RECURSIVE WebhookQuestionsFrom(_, _)
WebhookQuestionsFrom(content, i) ==
  IF i > Len(content) THEN <<>>
  ELSE LET element == content[i]
           text == IF element.isParagraph /\ element.elements # <<>>
                   THEN Trim(element.elements[1]) ELSE <<>>
           answered == /\ i + 1 <= Len(content)
                       /\ content[i + 1].isParagraph
                       /\ content[i + 1].elements # <<>>
                       /\ StartsWith(content[i + 1].elements[1], AnswerMarker)
       IN (IF text # <<>> /\ text[Len(text)] = "?"
           THEN <<[text |-> text, endIndex |-> element.endIndex, para |-> i,
                   via |-> "question mark", answered |-> answered]>>
           ELSE <<>>)
          \o WebhookQuestionsFrom(content, i + 1)

\* `Answer: ${answer}\n`
WebhookAnswerText(answer) == AnswerMarker \o <<SP>> \o answer \o <<NL>>

\* words[i] + (i < words.length - 1 ? ' ' : ''), i counted from 0
WebhookWord(words, i) ==
  words[i + 1] \o (IF i < Len(words) - 1 THEN <<SP>> ELSE <<>>)

InitWebhook ==
  /\ probe = NoProbe
  /\ poll = NoPoll
  /\ docText \in Documents
  /\ env = Env(0, FALSE, {1}, DetectorReplies, AnswerReplies)
  /\ failLeft = MaxFailures
  /\ req = [r \in Requests |-> IdleRequest]

\* The for loop of the route moves to the next question that is not
\* answered, or the route sends 'Processed document.'
RECURSIVE WebhookNext(_)
WebhookNext(rec) ==
  IF rec.qi + 1 > Len(rec.questions)
  THEN Respond(rec, 200, "processed")
  ELSE IF rec.questions[rec.qi + 1].answered
       THEN WebhookNext([rec EXCEPT !.qi = @ + 1])
       ELSE [rec EXCEPT !.qi = @ + 1, !.pc = "webhook answer"]

\* The request arrives: `if (!documentId) return res.status(400)`, then
\* await fetchDocument(documentId)
WebhookStart(r) ==
  /\ r \in env.clients
  /\ req[r].pc = "idle"
  /\ \E documentId \in BOOLEAN :
       req' = [req EXCEPT ![r] =
                 IF ~documentId THEN Respond(@, 400, "missing documentId")
                 ELSE [@ EXCEPT !.pc = "webhook fetch"]]
  /\ UNCHANGED <<docText, env, failLeft, probe, poll>>

\* fetchDocument resolves; parseQuestions is synchronous
WebhookFetchOk(r) ==
  /\ req[r].pc = "webhook fetch"
  /\ LET content == fetchDocument(docText, env.indexed)
     IN req' = [req EXCEPT ![r] =
                  WebhookNext([@ EXCEPT
                    !.fetched = "ok",
                    !.content = content,
                    !.origin = [k \in 1..Len(docText) |-> k - 1],
                    !.questions = WebhookQuestionsFrom(content, 1),
                    !.qi = 0])]
  /\ UNCHANGED <<docText, env, failLeft, probe, poll>>

\* fetchDocument throws: catch, 500
WebhookFetchFail(r) ==
  /\ req[r].pc = "webhook fetch"
  /\ req' = [req EXCEPT ![r] =
               Respond([@ EXCEPT !.fetched = "failed"], 500, "error")]
  /\ UNCHANGED <<docText, env, failLeft, probe, poll>>

\* await generateAnswer resolves: `if (!answer) continue`, else the first
\* word leaves for the Docs server at content[question.index].endIndex - 1
WebhookAnswer(r) ==
  /\ req[r].pc = "webhook answer"
  /\ \E reply \in env.answers :
       LET rec == req[r]
           answer == generateAnswer(reply)
           insertIndex == rec.content[rec.questions[rec.qi].para].endIndex - 1
           words == Split(WebhookAnswerText(answer))
       IN req' = [req EXCEPT ![r] =
                    IF answer = Null THEN WebhookNext(rec)
                    ELSE Issue([rec EXCEPT !.words = words,
                                           !.i = 0,
                                           !.chunk = WebhookWord(words, 0),
                                           !.insertIndex = insertIndex,
                                           !.passedIndex = insertIndex,
                                           !.calls = <<>>,
                                           !.pc = "webhook insert"],
                               WebhookWord(words, 0))]
  /\ UNCHANGED <<docText, env, failLeft, probe, poll>>

\* batchUpdate resolves: insertIndex += word.length, then the pause
WebhookInsertOk(r) ==
  /\ req[r].pc = "webhook insert"
  /\ CanInsert(docText, req[r].insertIndex)
  /\ LET rec == req[r]
     IN Commit(r, [Settle(rec, "ok") EXCEPT
                     !.insertIndex = @ + Len(rec.chunk),
                     !.pc = "webhook pause"],
               rec.insertIndex, rec.chunk)
  /\ UNCHANGED <<env, failLeft, probe, poll>>

\* batchUpdate rejects: break, the route goes to the next question
WebhookInsertFail(r) ==
  /\ req[r].pc = "webhook insert"
  /\ ~CanInsert(docText, req[r].insertIndex) \/ failLeft > 0
  /\ failLeft' = IF CanInsert(docText, req[r].insertIndex)
                 THEN failLeft - 1 ELSE failLeft
  /\ req' = [req EXCEPT ![r] = WebhookNext(Settle(@, "failed"))]
  /\ UNCHANGED <<docText, env, probe, poll>>

\* The pause after a word ends: next word, or next question
WebhookPause(r) ==
  /\ req[r].pc = "webhook pause"
  /\ LET rec == req[r]
         i == rec.i + 1
     IN req' = [req EXCEPT ![r] =
                  IF i < Len(rec.words)
                  THEN Issue([rec EXCEPT !.i = i,
                                         !.chunk = WebhookWord(rec.words, i),
                                         !.pc = "webhook insert"],
                             WebhookWord(rec.words, i))
                  ELSE WebhookNext(rec)]
  /\ UNCHANGED <<docText, env, failLeft, probe, poll>>

NextWebhook ==
  \E r \in Requests :
    \/ WebhookStart(r)
    \/ WebhookFetchOk(r)
    \/ WebhookFetchFail(r)
    \/ WebhookAnswer(r)
    \/ WebhookInsertOk(r)
    \/ WebhookInsertFail(r)
    \/ WebhookPause(r)

SpecWebhook == InitWebhook /\ [][NextWebhook]_vars

\* C29: every route that can issue insertions checks the owner's approval
\* first: no insertion is issued by a request whose approval check has not
\* returned true.
C29_EveryRouteChecksApproval ==
  \A r \in Requests :
    \A k \in 1..Len(req[r].calls) : req[r].approved

\* Neither request had ended when the other fetched the document
Overlapping(r1, r2) ==
  /\ r1 # r2
  /\ req[r1].fetched = "ok" /\ req[r2].fetched = "ok"
  /\ r1 \notin req[r2].after
  /\ r2 \notin req[r1].after

\* C30: when two requests for the same document overlap, the first chunk of
\* every answer is still sent to the index where the terminating character
\* of its question's paragraph now stands (for questions that carry the
\* structural end offset of their paragraph), and no question gets an
\* insertion from both requests.
C30_OverlappingRequestsStayApart ==
  /\ \A r \in Requests :
       (InFlight(req[r]) /\ req[r].i = 0 /\ StructuralEndIndexes(req[r]))
       => req[r].insertIndex =
            PositionNow(req[r],
                        req[r].content[Current(req[r]).para].endIndex - 1)
  /\ \A r1, r2 \in Requests :
       Overlapping(r1, r2) => req[r1].tried \cap req[r2].tried = {}

====
